---------------------------- MODULE Spec2Model ----------------------------
(***************************************************************************)
(* fastq-fix-i5: a streaming filter over FASTQ records (src/src/main.rs).  *)
(* Bytes are one-character strings; byte buffers (Vec<u8>, slices) are     *)
(* sequences of bytes.  Offsets inside the operators that model Rust code  *)
(* are 0-based as in the source; buf[o + 1] is the byte at offset o.       *)
(***************************************************************************)
EXTENDS Naturals, Integers, Sequences, FiniteSets, TLC

(* ------------------------------ bounds --------------------------------- *)
\* longest header buffer handed to rewrite_header_i5 by the unit harness
MaxHdrLen == 6
\* most lines of one input stream of the driver
MaxLines == 8
\* most bytes one refill of the BufReader delivers (stands for read_buf_size)
MaxChunk == 2
\* most bytes of a source the harness of read_line reads line by line
MaxStream == 8
\* most lines of an input stream of the runs checked for termination
MaxLiveLines == 5
\* longest i5 field of the mixed-case headers of the unit harness
MaxFieldLen == 4
\* capacity of the BufWriter (stands for write_buf_size); the longer line of
\* LinePool is written through, the shorter one is buffered
WriteBufCap == 5

(* ------------------------------- bytes --------------------------------- *)
LF == "\n"
\* the bytes the unit harness builds header buffers from
HdrBytes == {"@", ":", "+", "A", "c", LF}

\* 0-based offset results of the memchr crate; None is Option::None
None == -1

RECURSIVE BoundedSeq(_, _)
\* all sequences over S of length at most n
BoundedSeq(S, n) ==
    IF n = 0 THEN {<<>>}
    ELSE LET shorter == BoundedSeq(S, n - 1)
         IN  shorter \cup {Append(q, b) : q \in {r \in shorter : Len(r) = n - 1}, b \in S}

\* &buf[from..to] with 0-based offsets, to exclusive
Slice(buf, from, to) == SubSeq(buf, from + 1, to)

\* memchr(needle, hay): offset of the first occurrence
memchr(needle, hay) ==
    LET hits == {o \in 0..(Len(hay) - 1) : hay[o + 1] = needle}
    IN  IF hits = {} THEN None ELSE CHOOSE o \in hits : \A o2 \in hits : o <= o2

\* memrchr(needle, hay): offset of the last occurrence
memrchr(needle, hay) ==
    LET hits == {o \in 0..(Len(hay) - 1) : hay[o + 1] = needle}
    IN  IF hits = {} THEN None ELSE CHOOSE o \in hits : \A o2 \in hits : o >= o2

(* ------------------------ the Header Rewriter --------------------------- *)
\* faulty variant: the arm b'g' => b'c' is missing
complement_base_no_g(b) ==
    CASE b = "A" -> "T" [] b = "C" -> "G" [] b = "G" -> "C" [] b = "T" -> "A"
      [] b = "N" -> "N"
      [] b = "a" -> "t" [] b = "c" -> "g" [] b = "t" -> "a"
      [] b = "n" -> "n"
      [] OTHER -> b

\* faulty variant: the default arm answers N for a byte it does not know
complement_base_unknown_as_N(b) ==
    CASE b = "A" -> "T" [] b = "T" -> "A" [] b = "C" -> "G" [] b = "G" -> "C"
      [] b = "a" -> "t" [] b = "t" -> "a" [] b = "c" -> "g" [] b = "g" -> "c"
      [] b \in {"N", "n"} -> b
      [] OTHER -> "N"

\* faulty variant: the lower-case arms answer in upper case
complement_base_loses_case(b) ==
    CASE b \in {"A", "a"} -> "T"
      [] b \in {"T", "t"} -> "A"
      [] b \in {"C", "c"} -> "G"
      [] b \in {"G", "g"} -> "C"
      [] OTHER -> b

\* faulty variant: b'T' is mapped like b'C'
complement_base_T_as_C(b) ==
    CASE b = "A" -> "T" [] b = "C" -> "G" [] b = "G" -> "C" [] b = "T" -> "G"
      [] b = "N" -> "N"
      [] b = "a" -> "t" [] b = "c" -> "g" [] b = "g" -> "c" [] b = "t" -> "a"
      [] b = "n" -> "n"
      [] OTHER -> b

complement_base(b) ==
    CASE b = "A" -> "T" [] b = "C" -> "G" [] b = "G" -> "C" [] b = "T" -> "A"
      [] b = "N" -> "N"
      [] b = "a" -> "t" [] b = "c" -> "g" [] b = "g" -> "c" [] b = "t" -> "a"
      [] b = "n" -> "n"
      [] OTHER -> b

RECURSIVE rc_loop_skip_middle(_, _, _)
\* faulty variant: `while i + 1 < j`, which leaves the middle byte alone
rc_loop_skip_middle(buf, i, j) ==
    IF i + 1 < j
    THEN LET j1 == j - 1
             a  == complement_base(buf[i + 1])
             b  == complement_base(buf[j1 + 1])
             b1 == [buf EXCEPT ![i + 1] = b]
             b2 == [b1 EXCEPT ![j1 + 1] = a]
         IN  rc_loop_skip_middle(b2, i + 1, j1)
    ELSE buf

RECURSIVE rc_loop(_, _, _)
\* the while loop of reverse_complement_in_place, one iteration per unfolding
rc_loop(buf, i, j) ==
    IF i < j
    THEN LET j1 == j - 1
             a  == complement_base(buf[i + 1])
             b  == complement_base(buf[j1 + 1])
             b1 == [buf EXCEPT ![i + 1] = b]
             b2 == [b1 EXCEPT ![j1 + 1] = a]
         IN  rc_loop(b2, i + 1, j1)
    ELSE buf

reverse_complement_in_place(buf) == rc_loop(buf, 0, Len(buf))

\* faulty variant: the first byte is not looked at
not_a_header_empty_only(header) == header = <<>>

\* header.is_empty() || header[0] != b'@'
not_a_header(header) == header = <<>> \/ header[1] # "@"

\* faulty variant: the field always runs to the end of the buffer
i5_end_ignoring_nl(header, has_nl) == Len(header)

\* faulty variant: the trailing line feed is taken for granted
i5_end_assuming_nl(header, has_nl) == Len(header) - 1

\* the end offset of the i5 field
i5_end_of(header, has_nl) == IF has_nl THEN Len(header) - 1 ELSE Len(header)

\* faulty variant: the '+' is looked for after the first ':'
i5_start_of_first_colon(header) ==
    LET j == memchr(":", header)
    IN  IF j = None THEN None
        ELSE LET rel_k == memchr("+", Slice(header, j + 1, Len(header)))
             IN  IF rel_k = None THEN None ELSE j + 1 + rel_k + 1

\* the last ':' (j), the first '+' after it (rel_k, counted from j + 1) and
\* i5_start, the offset after that '+'; None when ':' or '+' is not found
i5_start_of(header) ==
    LET j == memrchr(":", header)
    IN  IF j = None THEN None
        ELSE LET rel_k == memchr("+", Slice(header, j + 1, Len(header)))
             IN  IF rel_k = None THEN None ELSE j + 1 + rel_k + 1

\* rewrite_header_i5: the buffer afterwards, the returned bool, and whether
\* the slice header[i5_start..i5_end] was out of range (a panic)
rewrite_header_i5(header) ==
    IF not_a_header(header)
    THEN [header |-> header, ret |-> FALSE, panic |-> FALSE]
    ELSE
    LET has_nl   == header[Len(header)] = LF
        i5_start == i5_start_of(header)
    IN  IF i5_start = None THEN [header |-> header, ret |-> FALSE, panic |-> FALSE]
        ELSE
        LET i5_end == i5_end_of(header, has_nl)
        IN  IF i5_start > i5_end
            THEN [header |-> header, ret |-> FALSE, panic |-> TRUE]
            ELSE [header |-> Slice(header, 0, i5_start)
                              \o reverse_complement_in_place(Slice(header, i5_start, i5_end))
                              \o Slice(header, i5_end, Len(header)),
                  ret |-> TRUE, panic |-> FALSE]


(* ------------------------------ the state ------------------------------ *)
VARIABLES
    input,      \* the bytes of standard input of the current run
    cursor,     \* bytes of input consumed from the BufReader so far
    fetched,    \* bytes of input pulled into the BufReader's buffer so far
    lines,      \* the line buffers h, s, p, q of main
    cur,        \* the line buffer the current read_line / write_all works on
    total,      \* read_line's byte count (its return value once it returned)
    mark,       \* the value of cursor when the current read_line was called
    pc,         \* position of main
    obuf,       \* bytes held in the BufWriter
    sink,       \* bytes that reached standard output
    sinkOk,     \* FALSE once a write to standard output has failed
    err,        \* the words of the error main returned, <<>> if none
    pass,       \* 1: the tool runs on the input; 2: it runs on its own output
    first,      \* the input of pass 1
    header,     \* unit harness: the buffer handed to rewrite_header_i5
    tin,        \* unit harness: the case's input bytes
    rets        \* unit harness: the values rewrite_header_i5 returned so far

driver == <<input, cursor, fetched, lines, cur, total, mark, pc, obuf, sink, sinkOk,
            err, pass, first>>
harness == <<header, tin, rets>>
vars == <<input, cursor, fetched, lines, cur, total, mark, pc, obuf, sink, sinkOk,
          err, pass, first, header, tin, rets>>

\* the line bodies input streams are built from
LinePool == {<<"@", ":", "+", "A", "c">>, <<"@", ":", "A">>}

RECURSIVE Join(_, _)
\* the stream of the lines ls, each followed by a line feed; the last one
\* only when nl
Join(ls, nl) ==
    IF ls = <<>> THEN <<>>
    ELSE IF Len(ls) = 1 THEN (IF nl THEN Append(ls[1], LF) ELSE ls[1])
    ELSE Append(ls[1], LF) \o Join(Tail(ls), nl)

Streams == {Join(ls, nl) : ls \in BoundedSeq(LinePool, MaxLines), nl \in BOOLEAN}

TruncatedMsg == <<"truncated", "FASTQ", "record", "(expected", "4", "lines)">>
IoMsg == <<"os", "error">>

NoLines == [h |-> <<>>, s |-> <<>>, p |-> <<>>, q |-> <<>>]

HarnessIdle == header = <<>> /\ tin = <<>> /\ rets = <<>>

\* main before its loop, or (at = "unit") not running
Start(stream, at) ==
    /\ input = stream
    /\ cursor = 0
    /\ fetched = 0
    /\ lines = NoLines
    /\ cur = "h"
    /\ total = 0
    /\ mark = 0
    /\ pc = at
    /\ obuf = <<>>
    /\ sink = <<>>
    /\ sinkOk = TRUE
    /\ err = <<>>

Init ==
    /\ \E stream \in Streams : Start(stream, "loop") /\ first = stream
    /\ pass = 1
    /\ HarnessIdle

(* ----------------------------- read_line ------------------------------- *)
\* faulty variant: read_line without its buf.clear()
EnterReadLine_without_clear(c, ls) ==
    /\ lines' = ls
    /\ cur' = c
    /\ total' = 0
    /\ mark' = cursor
    /\ pc' = "read"

\* read_line is called for line buffer c, the line buffers being ls:
\* buf.clear() and total = 0 at its head
EnterReadLine(c, ls) ==
    /\ lines' = [ls EXCEPT ![c] = <<>>]
    /\ cur' = c
    /\ total' = 0
    /\ mark' = cursor
    /\ pc' = "read"

\* what fill_buf may leave as the end of the buffered bytes: the buffer as it
\* is when it still holds bytes, else one read of 1..MaxChunk bytes of what
\* is left of the source (nothing at end of stream)
FillChoices ==
    IF fetched > cursor THEN {fetched}
    ELSE IF fetched = Len(input) THEN {fetched}
    ELSE {f \in (fetched + 1)..(fetched + MaxChunk) : f <= Len(input)}

\* faulty variant: r.consume(available.len()) when the line feed was found
consume_all(pos, available) == Len(available)

\* let consume = pos + 1, when the line feed was found at pos
consume_line(pos, available) == pos + 1

\* one iteration of the loop of read_line
ReadLineIter ==
    /\ pc = "read"
    /\ \E f \in FillChoices :
         LET available == Slice(input, cursor, f)
             pos == memchr(LF, available)
         IN  /\ fetched' = f
             /\ IF available = <<>>
                THEN /\ pc' = "ret"
                     /\ UNCHANGED <<lines, cursor, total>>
                ELSE IF pos # None
                THEN /\ lines' = [lines EXCEPT ![cur] = @ \o Slice(available, 0, pos + 1)]
                     /\ cursor' = cursor + consume_line(pos, available)
                     /\ total' = total + consume_line(pos, available)
                     /\ pc' = "ret"
                ELSE /\ lines' = [lines EXCEPT ![cur] = @ \o available]
                     /\ cursor' = cursor + Len(available)
                     /\ total' = total + Len(available)
                     /\ pc' = "read"
    /\ UNCHANGED <<input, cur, mark, obuf, sink, sinkOk, err, pass, first, harness>>

(* ----------------------------- BufWriter ------------------------------- *)
\* faulty variant: the BufWriter is not dropped (the process exits at once)
ReturnErr_without_drop(msg, buffered, written, M, failed) ==
    /\ pc' = "fatal"
    /\ err' = msg
    /\ sink' = written
    /\ obuf' = buffered
    /\ sinkOk' = (sinkOk /\ ~failed)

\* main returns Err(msg): output is dropped, and BufWriter's drop writes the
\* buffered bytes out, ignoring a failure of that write; standard output
\* takes m of them, for some m in M; failed: a write had failed before
ReturnErr(msg, buffered, written, M, failed) ==
    /\ pc' = "fatal"
    /\ err' = msg
    /\ \E m \in M :
         /\ sink' = written \o Slice(buffered, 0, m)
         /\ obuf' = Slice(buffered, m, Len(buffered))
         /\ sinkOk' = (sinkOk /\ ~failed /\ m = Len(buffered))

\* faulty variant: the buffered bytes are not written out before a long line
BufWriteAll_keeps_buffer(w, data) ==
    IF Len(data) >= WriteBufCap
    THEN [buf |-> w.buf, out |-> w.out \o data]
    ELSE [buf |-> w.buf \o data, out |-> w.out]

\* BufWriter::write_all when no write to standard output fails
BufWriteAll(w, data) ==
    LET spare == WriteBufCap - Len(w.buf)
    IN  IF Len(data) < spare
        THEN [buf |-> w.buf \o data, out |-> w.out]
        ELSE LET w1 == IF Len(data) > spare
                       THEN [buf |-> <<>>, out |-> w.out \o w.buf]
                       ELSE w
             IN  IF Len(data) >= WriteBufCap
                 THEN [buf |-> w1.buf, out |-> w1.out \o data]
                 ELSE [buf |-> w1.buf \o data, out |-> w1.out]

(* ------------------------------- main ---------------------------------- *)
\* top of the loop: h.clear(); read_line(&mut input, &mut h)
LoopTop ==
    /\ pc = "loop"
    /\ EnterReadLine("h", [lines EXCEPT !["h"] = <<>>])
    /\ UNCHANGED <<input, cursor, fetched, obuf, sink, sinkOk, err, pass, first, harness>>

\* fill_buf fails inside read_line: `?` returns the error from main
ReadError ==
    /\ pc = "read"
    /\ fetched = cursor
    /\ ReturnErr(IoMsg, obuf, sink, 0..Len(obuf), FALSE)
    /\ UNCHANGED <<input, cursor, fetched, lines, cur, total, mark, pass, first, harness>>

\* faulty variant: `continue` in the place of `break`
EndOfStream_continue ==
    /\ pc = "ret" /\ cur = "h" /\ total = 0
    /\ pc' = "loop"
    /\ UNCHANGED <<input, cursor, fetched, lines, cur, total, mark, obuf, sink, sinkOk,
                   err, pass, first, harness>>

\* n == 0 for the header: break
EndOfStream ==
    /\ pc = "ret" /\ cur = "h" /\ total = 0
    /\ pc' = "flush"
    /\ UNCHANGED <<input, cursor, fetched, lines, cur, total, mark, obuf, sink, sinkOk,
                   err, pass, first, harness>>

NextBuf(c) == CASE c = "h" -> "s" [] c = "s" -> "p" [] c = "p" -> "q" [] OTHER -> "h"

\* a line other than the last of the record was read: read the next one
\* (after the header: s.clear(); p.clear(); q.clear() first)
NextLine ==
    /\ pc = "ret" /\ cur \in {"h", "s", "p"} /\ total > 0
    /\ IF cur = "h"
       THEN EnterReadLine("s", [lines EXCEPT !["s"] = <<>>, !["p"] = <<>>, !["q"] = <<>>])
       ELSE EnterReadLine(NextBuf(cur), lines)
    /\ UNCHANGED <<input, cursor, fetched, obuf, sink, sinkOk, err, pass, first, harness>>

\* faulty variant: a missing line ends the loop like the end of the stream
Truncated_as_end ==
    /\ pc = "ret" /\ cur \in {"s", "p", "q"} /\ total = 0
    /\ pc' = "flush"
    /\ UNCHANGED <<input, cursor, fetched, lines, cur, total, mark, obuf, sink, sinkOk,
                   err, pass, first, harness>>

\* one of the three reads after the header returned 0
Truncated ==
    /\ pc = "ret" /\ cur \in {"s", "p", "q"} /\ total = 0
    /\ ReturnErr(TruncatedMsg, obuf, sink, {Len(obuf)}, FALSE)
    /\ UNCHANGED <<input, cursor, fetched, lines, cur, total, mark, pass, first, harness>>

\* the same, and the write of the buffered bytes by BufWriter's drop fails
TruncatedDropFails ==
    /\ pc = "ret" /\ cur \in {"s", "p", "q"} /\ total = 0
    /\ obuf # <<>>
    /\ ReturnErr(TruncatedMsg, obuf, sink, 0..(Len(obuf) - 1), FALSE)
    /\ UNCHANGED <<input, cursor, fetched, lines, cur, total, mark, pass, first, harness>>

\* faulty variant: the sequence line is rewritten as well
RewriteHeader_and_seq ==
    /\ pc = "ret" /\ cur = "q" /\ total > 0
    /\ lines' = [lines EXCEPT !["h"] = rewrite_header_i5(lines.h).header,
                              !["s"] = rewrite_header_i5(lines.s).header]
    /\ cur' = "h"
    /\ pc' = "write"
    /\ UNCHANGED <<input, cursor, fetched, total, mark, obuf, sink, sinkOk, err, pass,
                   first, harness>>

\* all four lines were read: rewrite_header_i5(&mut h)
RewriteHeader ==
    /\ pc = "ret" /\ cur = "q" /\ total > 0
    /\ LET r == rewrite_header_i5(lines.h)
       IN  IF r.panic
           THEN /\ pc' = "panic" /\ UNCHANGED <<lines, cur>>
           ELSE /\ lines' = [lines EXCEPT !["h"] = r.header]
                /\ cur' = "h"
                /\ pc' = "write"
    /\ UNCHANGED <<input, cursor, fetched, total, mark, obuf, sink, sinkOk, err, pass,
                   first, harness>>

\* output.write_all(&h), (&s), (&p), (&q), one per step
WriteLine ==
    /\ pc = "write"
    /\ LET w == BufWriteAll([buf |-> obuf, out |-> sink], lines[cur])
       IN  obuf' = w.buf /\ sink' = w.out
    /\ cur' = NextBuf(cur)
    /\ pc' = IF cur = "q" THEN "loop" ELSE "write"
    /\ UNCHANGED <<input, cursor, fetched, lines, total, mark, sinkOk, err, pass, first, harness>>

\* output.write_all fails while it writes to standard output: either the
\* flush of the BufWriter's buffer, or the direct write of a long line
WriteError ==
    /\ pc = "write"
    /\ LET data == lines[cur]
           spare == WriteBufCap - Len(obuf)
       IN  /\ Len(data) >= spare
           /\ IF Len(data) > spare /\ obuf # <<>>
              THEN \E k \in 0..(Len(obuf) - 1) :
                     ReturnErr(IoMsg, Slice(obuf, k, Len(obuf)), sink \o Slice(obuf, 0, k),
                               0..(Len(obuf) - k), TRUE)
              ELSE /\ Len(data) >= WriteBufCap
                   /\ \E k \in 0..(Len(data) - 1) :
                        ReturnErr(IoMsg, <<>>, sink \o obuf \o Slice(data, 0, k), {0}, TRUE)
    /\ UNCHANGED <<input, cursor, fetched, lines, cur, total, mark, pass, first, harness>>

\* faulty variant: Ok(()) without output.flush(), the BufWriter being leaked
Flush_forgotten ==
    /\ pc = "flush"
    /\ pc' = "done"
    /\ UNCHANGED <<input, cursor, fetched, lines, cur, total, mark, obuf, sink, sinkOk,
                   err, pass, first, harness>>

\* output.flush() after the loop, then Ok(())
Flush ==
    /\ pc = "flush"
    /\ sink' = sink \o obuf
    /\ obuf' = <<>>
    /\ pc' = "done"
    /\ UNCHANGED <<input, cursor, fetched, lines, cur, total, mark, sinkOk, err, pass,
                   first, harness>>

\* output.flush()? fails
FlushError ==
    /\ pc = "flush"
    /\ obuf # <<>>
    /\ \E k \in 0..(Len(obuf) - 1) :
         ReturnErr(IoMsg, Slice(obuf, k, Len(obuf)), sink \o Slice(obuf, 0, k),
                   0..(Len(obuf) - k), TRUE)
    /\ UNCHANGED <<input, cursor, fetched, lines, cur, total, mark, pass, first, harness>>

\* the output of a successful run is piped into a second run of the tool
SecondPass ==
    /\ pc = "done" /\ pass = 1
    /\ pass' = 2
    /\ input' = sink
    /\ cursor' = 0 /\ fetched' = 0
    /\ lines' = NoLines /\ cur' = "h" /\ total' = 0 /\ mark' = 0
    /\ pc' = "loop"
    /\ obuf' = <<>> /\ sink' = <<>> /\ sinkOk' = TRUE /\ err' = <<>>
    /\ UNCHANGED <<first, harness>>

\* the run when no read of standard input and no write to standard output fails
Next ==
    \/ LoopTop
    \/ ReadLineIter
    \/ EndOfStream
    \/ NextLine
    \/ Truncated
    \/ RewriteHeader
    \/ WriteLine
    \/ Flush
    \/ SecondPass

Spec == Init /\ [][Next]_vars

\* the run under a scheduler that never stops the process: a blocking read or
\* write returns, and the next statement of main is executed
InitLive ==
    /\ \E ls \in BoundedSeq(LinePool, MaxLiveLines), nl \in BOOLEAN :
          Start(Join(ls, nl), "loop") /\ first = Join(ls, nl)
    /\ pass = 1
    /\ HarnessIdle

SpecLive == InitLive /\ [][Next]_vars /\ WF_vars(Next)

\* the run when reads and writes may fail (std::io::Error)
NextIo ==
    \/ Next
    \/ ReadError
    \/ TruncatedDropFails
    \/ WriteError
    \/ FlushError

SpecIo == Init /\ [][NextIo]_vars

(* --------------------- the unit harness of the rewriter ----------------- *)
\* rewrite_header_i5_cases: header = input.to_vec(), for every byte string
InitRewriter ==
    /\ tin \in BoundedSeq(HdrBytes, MaxHdrLen)
    /\ header = tin
    /\ rets = <<>>
    /\ Start(<<>>, "unit") /\ first = <<>> /\ pass = 1

\* rewrite_header_i5(&mut header); a second call stands for the second run
\* of the tool over the rewritten header
RewriteCase ==
    /\ pc = "unit"
    /\ Len(rets) < 2
    /\ LET r == rewrite_header_i5(header)
       IN  IF r.panic
           THEN pc' = "panic" /\ UNCHANGED <<header, rets>>
           ELSE /\ header' = r.header
                /\ rets' = Append(rets, r.ret)
                /\ pc' = pc
    /\ UNCHANGED <<tin, input, cursor, fetched, lines, cur, total, mark, obuf, sink,
                   sinkOk, err, pass, first>>

NextRewriter == RewriteCase

SpecRewriter == InitRewriter /\ [][NextRewriter]_vars

\* the bytes of the fields of the mixed-case headers: every base the
\* complement knows, in either case, and one byte it does not know
FieldBytes == {"A", "C", "G", "T", "N", "a", "c", "g", "t", "n", "x"}

\* headers such as that of the test actg_mixedcase: "@:+" and a field
InitMixedCase ==
    /\ \E field \in BoundedSeq(FieldBytes, MaxFieldLen) : tin = <<"@", ":", "+">> \o field
    /\ header = tin
    /\ rets = <<>>
    /\ Start(<<>>, "unit") /\ first = <<>> /\ pass = 1

SpecMixedCase == InitMixedCase /\ [][NextRewriter]_vars

\* the rewriter on every header, and the runs of the tool
InitUnitAndRun == Init \/ InitRewriter
NextUnitAndRun == Next \/ NextRewriter
SpecUnitAndRun == InitUnitAndRun /\ [][NextUnitAndRun]_vars

(* ----------------------- the harness of read_line ----------------------- *)
\* the bytes the sources of the read_line harness are made of
SrcBytes == {"a", LF}

\* a source of any bytes, read line by line into one buffer
InitReader ==
    /\ \E stream \in BoundedSeq(SrcBytes, MaxStream) : Start(stream, "loop") /\ first = stream
    /\ pass = 1
    /\ HarnessIdle

\* the caller calls read_line(&mut input, &mut h): first, and again after
\* each return, on the buffer as the last call left it
CallReadLine ==
    /\ pc \in {"loop", "ret"}
    /\ EnterReadLine("h", lines)
    /\ UNCHANGED <<input, cursor, fetched, obuf, sink, sinkOk, err, pass, first, harness>>

NextReader == ReadLineIter \/ CallReadLine

SpecReader == InitReader /\ [][NextReader]_vars

(* ------------------- what the claims speak about ------------------------ *)
\* 1-based positions in a header line hd, stated without the scans of the code
ColonAt(hd) == {i \in 1..Len(hd) : hd[i] = ":"}
PlusAfter(hd) == {k \in 1..Len(hd) : hd[k] = "+" /\ \A i \in ColonAt(hd) : i < k}
Delimiter(hd) == CHOOSE k \in PlusAfter(hd) : \A k2 \in PlusAfter(hd) : k <= k2

\* hd starts with '@' and has a '+' after its last ':'
HasField(hd) == hd # <<>> /\ hd[1] = "@" /\ ColonAt(hd) # {} /\ PlusAfter(hd) # {}
\* the first and the last position of the i5 field (FieldHi < FieldLo: empty)
FieldLo(hd) == Delimiter(hd) + 1
FieldHi(hd) == IF hd[Len(hd)] = LF THEN Len(hd) - 1 ELSE Len(hd)
FieldLen(hd) == FieldHi(hd) - FieldLo(hd) + 1

Bases == {"A", "C", "G", "T", "N", "a", "c", "g", "t", "n"}
\* the complement of a base: A<->T, C<->G, N<->N, in either case
WatsonCrick(b) ==
    CASE b \in {"A", "a"} -> (IF b = "A" THEN "T" ELSE "t")
      [] b \in {"T", "t"} -> (IF b = "T" THEN "A" ELSE "a")
      [] b \in {"C", "c"} -> (IF b = "C" THEN "G" ELSE "g")
      [] b \in {"G", "g"} -> (IF b = "G" THEN "C" ELSE "c")
      [] OTHER -> b

\* hd with its i5 field replaced by the reverse complement
WithFieldReversed(hd) ==
    IF ~HasField(hd) THEN hd
    ELSE [i \in 1..Len(hd) |->
            IF FieldLo(hd) <= i /\ i <= FieldHi(hd)
            THEN WatsonCrick(hd[FieldLo(hd) + FieldHi(hd) - i])
            ELSE hd[i]]

RECURSIVE SplitLines(_)
\* the lines of a stream, each with its line feed, the last maybe without
SplitLines(stream) ==
    IF stream = <<>> THEN <<>>
    ELSE LET ends == {i \in 1..Len(stream) : stream[i] = LF}
             e == IF ends = {} THEN Len(stream)
                  ELSE CHOOSE i \in ends : \A i2 \in ends : i <= i2
         IN  <<SubSeq(stream, 1, e)>> \o SplitLines(SubSeq(stream, e + 1, Len(stream)))

RECURSIVE Concat(_)
Concat(ls) == IF ls = <<>> THEN <<>> ELSE ls[1] \o Concat(Tail(ls))

\* the stream with the first line of every group of four rewritten
ExpectedOutput(stream) ==
    LET ls == SplitLines(stream)
    IN  Concat([i \in 1..Len(ls) |-> IF i % 4 = 1 THEN WithFieldReversed(ls[i]) ELSE ls[i]])

Words(msg) == {msg[i] : i \in 1..Len(msg)}

(* ------------------------------ the claims ------------------------------ *)
\* C1: when the run ends successfully, the output is the input with the
\* header of every record (and no other line) having its i5 field replaced by
\* the reverse complement, line for line and in order.
C1_OutputIsInputWithHeadersRewritten ==
    pc = "done" =>
        /\ sink = ExpectedOutput(input)
        /\ Len(SplitLines(sink)) = Len(SplitLines(input))

\* two records went through: one header was rewritten, one had no field, and
\* a line that is not a header looks like one
C1_Witness ==
    /\ pc = "done" /\ pass = 1
    /\ LET ls == SplitLines(input)
           out == SplitLines(sink)
       IN  /\ Len(ls) = 8
           /\ out[1] # ls[1]
           /\ ~HasField(ls[5])
           /\ HasField(ls[2]) /\ FieldLen(ls[2]) = 2 /\ out[2] = ls[2]

\* C2: a well-formed stream of records goes through the tool twice without
\* failure, and the second output is the original stream.
C2_RoundTrip ==
    /\ (pass = 2 /\ pc = "done") => sink = first
    /\ pass = 2 => Len(SplitLines(input)) % 4 = 0
    /\ pc = "fatal" => Len(SplitLines(input)) % 4 # 0

\* the second run ended on two records, a long header before a short one,
\* whose first run had changed the stream
C2_Witness ==
    /\ pass = 2 /\ pc = "done" /\ sink = first
    /\ input # first
    /\ LET ls == SplitLines(first)
       IN  Len(ls) = 8 /\ Len(ls[1]) > Len(ls[5]) /\ Len(ls[2]) > Len(ls[6])

\* C3: when a read after the header returns 0, the next step of the driver
\* is into Fatal with a message naming the truncation, nothing more is read,
\* and Fatal is never left.
C3_TruncationIsFatal ==
    /\ [][(pc = "ret" /\ cur \in {"s", "p", "q"} /\ total = 0 /\ Len(lines.h) > 0)
            => (/\ pc' = "fatal"
                /\ "truncated" \in Words(err')
                /\ cursor' = cursor /\ fetched' = fetched)]_vars
    /\ [][pc = "fatal"
            => (pc' = "fatal" /\ err' = err /\ cursor' = cursor /\ fetched' = fetched)]_vars

\* a record was written, and the next one broke off after its plus line
C3_Witness ==
    /\ pc = "fatal" /\ "truncated" \in Words(err)
    /\ cur = "q" /\ Len(SplitLines(input)) = 7
    /\ Len(SplitLines(sink)) = 4

\* C4 (as claimed): once a complete record whose header has a ':' and no '+'
\* after the last ':' has been read, the run ends in failure with a message
\* that contains '+' in quotes.
C4_MissingPlusIsDiagnosed ==
    LET ls == SplitLines(input)
    IN  (/\ pc \in {"done", "fatal"}
         /\ \E i \in 1..Len(ls) :
              /\ i % 4 = 1 /\ i + 3 <= Len(ls)
              /\ ColonAt(ls[i]) # {} /\ PlusAfter(ls[i]) = {})
        => (pc = "fatal" /\ "'+'" \in Words(err))

Unrecognised(hd) ==
    hd = <<>> \/ hd[1] # "@" \/ ColonAt(hd) = {} \/ PlusAfter(hd) = {}

C6_FieldIsReverseComplement ==
    (pc = "unit" /\ Len(rets) = 1 /\ HasField(tin)) =>
        \A o \in 0..(FieldLen(tin) - 1) :
            header[FieldLo(tin) + o] = WatsonCrick(tin[FieldLo(tin) + FieldLen(tin) - 1 - o])

\* a field of three bytes whose middle byte changed
C6_Witness ==
    /\ pc = "unit" /\ Len(rets) = 1 /\ HasField(tin)
    /\ FieldLen(tin) = 3
    /\ header[FieldLo(tin) + 1] # tin[FieldLo(tin) + 1]
    /\ header[FieldLo(tin)] # tin[FieldLo(tin)]

\* C7: rewrite_header_i5 never changes the length of the buffer, nor any
\* byte outside the field: the prefix up to the '+' and the trailing line feed.
C7_Frame ==
    (pc = "unit" /\ rets # <<>>) =>
        /\ Len(header) = Len(tin)
        /\ Len(rets) = 1 =>
             \A i \in 1..Len(tin) :
                (~HasField(tin) \/ i < FieldLo(tin) \/ i > FieldHi(tin)) => header[i] = tin[i]

\* a field before a trailing line feed was rewritten
C7_Witness ==
    /\ pc = "unit" /\ Len(rets) = 1 /\ HasField(tin)
    /\ tin[Len(tin)] = LF /\ FieldLen(tin) = 2
    /\ header # tin
    /\ header[Len(header)] = LF

\* C8: on a header with a field of bases only (A, C, G, T, N in either
\* case), two applications of rewrite_header_i5 give the header back.
C8_Involution ==
    (/\ pc = "unit" /\ Len(rets) = 2 /\ HasField(tin)
     /\ \A i \in FieldLo(tin)..FieldHi(tin) : tin[i] \in Bases)
        => header = tin

\* a header that the first application changed is back after the second
C8_Witness ==
    /\ pc = "unit" /\ Len(rets) = 2
    /\ tin = <<"@", ":", "+", "A", "c", LF>>
    /\ rewrite_header_i5(tin).header = <<"@", ":", "+", "g", "T", LF>>
    /\ header = tin

\* C9: when read_line returns, it returned 0 exactly if the source had no
\* byte left at the call; the buffer holds the bytes of the source from the
\* position of the call up to and including the first line feed, or all that
\* was left if there is none; the count returned is their number and the
\* cursor moved on by it; whatever the chunks were.
C9_ReadLineResult ==
    pc = "ret" =>
        LET rest == SubSeq(input, mark + 1, Len(input))
            ends == {i \in 1..Len(rest) : rest[i] = LF}
            want == IF ends = {} THEN Len(rest)
                    ELSE CHOOSE i \in ends : \A i2 \in ends : i <= i2
        IN  /\ (total = 0) <=> (rest = <<>>)
            /\ lines.h = SubSeq(rest, 1, want)
            /\ total = Len(lines.h)
            /\ cursor = mark + total
            /\ \A i \in 1..(Len(lines.h) - 1) : lines.h[i] # LF
            /\ (lines.h # <<>> /\ lines.h[Len(lines.h)] # LF) => cursor = Len(input)
            /\ cursor <= fetched /\ fetched <= Len(input)

\* a later line of three bytes came in more than one chunk, and the chunk
\* with its line feed holds a byte of the next line
C9_Witness ==
    /\ pc = "ret" /\ mark > 0 /\ total = 3
    /\ lines.h = <<"a", "a", LF>>
    /\ fetched > cursor

\* C10: a header read of zero bytes is followed by the flush and the
\* successful end, never by Fatal; nothing is written in between; at the
\* successful end every byte written is in the sink; and there is no other
\* way to the successful end.
C10_CleanEndOfStream ==
    /\ [][(pc = "ret" /\ cur = "h" /\ total = 0)
            => (pc' = "flush" /\ sink' = sink /\ obuf' = obuf /\ err' = <<>>)]_vars
    /\ [][pc = "flush"
            => (pc' = "done" /\ sink' = sink \o obuf /\ obuf' = <<>> /\ err' = <<>>)]_vars
    /\ [][(pc' = "done" /\ pc # "done") => pc = "flush"]_vars
    /\ [][(pc' = "flush" /\ pc # "flush") => (pc = "ret" /\ cur = "h" /\ total = 0)]_vars
    /\ [](pc = "done" => /\ obuf = <<>> /\ err = <<>>
                         /\ cur = "h" /\ total = 0 /\ cursor = Len(input)
                         /\ Len(sink) = Len(input))

\* the run ended well on two records, the last line short enough to have
\* been in the BufWriter when the end of the stream was seen
C10_Witness ==
    /\ pc = "done" /\ pass = 1
    /\ LET ls == SplitLines(input)
       IN  Len(ls) = 8 /\ Len(ls[8]) < WriteBufCap
    /\ sink = ExpectedOutput(input)

\* the bytes of input that make up the records written so far: what was
\* consumed, less the lines of the record that is being read or written
InFlight ==
    IF pc = "write" THEN Len(lines.h) + Len(lines.s) + Len(lines.p) + Len(lines.q)
    ELSE CASE cur = "h" -> Len(lines.h)
           [] cur = "s" -> Len(lines.h) + Len(lines.s)
           [] cur = "p" -> Len(lines.h) + Len(lines.s) + Len(lines.p)
           [] OTHER -> Len(lines.h) + Len(lines.s) + Len(lines.p) + Len(lines.q)
RecordsDone == SubSeq(input, 1, cursor - InFlight)

\* x is a stream of whole records, as a part of the input
WholeRecords(x) ==
    /\ Len(SplitLines(x)) % 4 = 0
    /\ x = <<>> \/ x[Len(x)] = LF \/ Len(x) = Len(input)

IsPrefix(x, y) == Len(x) <= Len(y) /\ x = SubSeq(y, 1, Len(x))

\* C11 (as claimed): whenever main returns an error, truncation or I/O error,
\* the sink then holds all the records written before, rewritten.
C11_AllRecordsReachSinkOnAnyError ==
    [][(pc' = "fatal" /\ pc # "fatal")
         => IsPrefix(ExpectedOutput(RecordsDone), sink')]_vars

\* C11 (amended): when main has returned an error and no write to standard
\* output has failed (truncation, or a failed read), the sink holds exactly
\* the records written before, whole, in order and once each, and nothing is
\* left in the BufWriter; after a failed write the sink holds a leading part
\* of the expected output, nothing else.
C11_RecordsReachSinkUnlessWriteFails ==
    pc = "fatal" =>
        /\ IsPrefix(sink, ExpectedOutput(input))
        /\ sinkOk => (/\ WholeRecords(RecordsDone)
                      /\ sink = ExpectedOutput(RecordsDone)
                      /\ obuf = <<>>)

\* a read failed after one record whose last line was still in the BufWriter
C11_Witness ==
    /\ pc = "fatal" /\ err = IoMsg /\ sinkOk
    /\ cur = "h"
    /\ LET out == SplitLines(sink)
       IN  Len(out) = 4 /\ Len(out[4]) < WriteBufCap /\ out[1] # SplitLines(input)[1]
    /\ cursor < Len(input)

\* the sink holds whole records of the input, rewritten, and nothing more
OnlyWholeRecords ==
    \E n \in 0..Len(input) :
        /\ WholeRecords(SubSeq(input, 1, n))
        /\ sink = ExpectedOutput(SubSeq(input, 1, n))

\* C12 (as claimed): however the run ended (Ok, truncation, failed read or
\* failed write), the sink holds a concatenation of whole records.
C12_NoPartialRecordEver ==
    pc \in {"done", "fatal"} => OnlyWholeRecords

\* C12 (amended): when the run ended Ok, by truncation or by a failed read,
\* and no write to standard output failed, the sink holds a concatenation of
\* whole records.
C12_NoPartialRecordUnlessWriteFails ==
    (pc = "done" \/ (pc = "fatal" /\ sinkOk)) => OnlyWholeRecords

\* a read failed in the middle of the second record, the first having been
\* written in part before
C12_Witness ==
    /\ pc = "fatal" /\ err = IoMsg /\ sinkOk
    /\ cur = "q" /\ lines.p # <<>> /\ lines.q # <<>>
    /\ Len(SplitLines(sink)) = 4

\* the pairs of complementary bases, and the upper-case ones
Pairs == {<<"A", "T">>, <<"C", "G">>, <<"N", "N">>, <<"a", "t">>, <<"c", "g">>, <<"n", "n">>}
Paired(b, b2) == <<b, b2>> \in Pairs \/ <<b2, b>> \in Pairs
UpperCase == {"A", "C", "G", "T", "N"}

\* C13: in the rewritten field, the byte at the mirrored offset of a base is
\* its complement (A<->T, C<->G, N<->N, a<->t, c<->g, n<->n) in the same
\* case; the byte at the mirrored offset of any other byte is that byte; the
\* field "AcTg" becomes "cAgT".
C13_ComplementKeepsCase ==
    (pc = "unit" /\ Len(rets) = 1 /\ HasField(tin)) =>
        /\ \A o \in 0..(FieldLen(tin) - 1) :
              LET b  == tin[FieldLo(tin) + o]
                  b2 == header[FieldHi(tin) - o]
              IN  IF b \in Bases
                  THEN Paired(b, b2) /\ (b \in UpperCase <=> b2 \in UpperCase)
                  ELSE b2 = b
        /\ tin = <<"@", ":", "+", "A", "c", "T", "g">>
             => header = <<"@", ":", "+", "c", "A", "g", "T">>

\* a mixed-case field with an unknown byte, which moved to the mirrored offset
C13_Witness ==
    /\ pc = "unit" /\ Len(rets) = 1
    /\ tin = <<"@", ":", "+", "A", "x", "g", "N">>
    /\ header = <<"@", ":", "+", "N", "c", "x", "T">>

\* C14 (as claimed): read_line leaves the bytes its buffer holds in place and
\* appends the line: called again and again on one buffer that the caller
\* never clears, it returns with all the lines read so far in the buffer, and
\* the count of the bytes this call appended.
C14_ReadLineAppends ==
    pc = "ret" => (lines.h = SubSeq(input, 1, cursor) /\ total = cursor - mark)

\* C14 (amended): read_line clears its buffer first: during a call and at its
\* return the buffer holds the bytes this call consumed and nothing it held
\* before, and the count returned is the length of the buffer.
C14_ReadLineClearsFirst ==
    /\ pc \in {"read", "ret"} => lines.h = SubSeq(input, mark + 1, cursor)
    /\ pc = "ret" => total = Len(lines.h)

\* the second call, on the buffer that held the first line, returned with the
\* second line only
C14_Witness ==
    /\ pc = "ret" /\ mark = 3
    /\ SubSeq(input, 1, 3) = <<"a", "a", LF>>
    /\ lines.h = <<"a", LF>>
    /\ total = 2

\* C15: the first application returned true exactly if the header is not
\* empty, starts with '@' and has a '+' after its last ':'; with an empty
\* field it returned true and left the buffer as it was.
C15_ReturnValue ==
    (pc = "unit" /\ Len(rets) >= 1) =>
        /\ rets[1] <=> HasField(tin)
        /\ (HasField(tin) /\ FieldLen(tin) = 0) => (rets[1] /\ header = tin)

\* true was returned for a header whose field is empty, before a line feed
C15_Witness ==
    /\ pc = "unit" /\ Len(rets) = 1 /\ rets[1]
    /\ HasField(tin) /\ FieldLen(tin) = 0
    /\ tin[Len(tin)] = LF
    /\ header = tin

\* the last ':' of a header
LastColonAt(hd) == CHOOSE i \in ColonAt(hd) : \A i2 \in ColonAt(hd) : i2 <= i

\* the field of tin starts with a line feed and tin has no trailing line feed
FieldStartsWithLF ==
    /\ HasField(tin) /\ FieldLen(tin) >= 1
    /\ tin[Len(tin)] # LF
    /\ tin[FieldLo(tin)] = LF

\* C16 (as claimed): two applications give back every header, whatever bytes
\* its field holds.
C16_InvolutionOnAllBytes ==
    (pc = "unit" /\ Len(rets) = 2) => header = tin

\* C16 (amended): the rewritten header has the last ':' and the first '+'
\* after it where the original has them; two applications give the original
\* back, whatever bytes the field holds, exactly if the field does not start
\* with a line feed in a header without trailing line feed.
C16_InvolutionUnlessFieldStartsWithLF ==
    /\ (pc = "unit" /\ Len(rets) = 1 /\ HasField(tin)) =>
          /\ HasField(header)
          /\ LastColonAt(header) = LastColonAt(tin)
          /\ Delimiter(header) = Delimiter(tin)
          /\ ~FieldStartsWithLF => FieldHi(header) = FieldHi(tin)
    /\ (pc = "unit" /\ Len(rets) = 2) => (header = tin <=> ~FieldStartsWithLF)

\* a field with a further '+' was rewritten and came back
C16_Witness ==
    /\ pc = "unit" /\ Len(rets) = 2
    /\ tin = <<"@", ":", "+", "+", "A", LF>>
    /\ rewrite_header_i5(tin).header = <<"@", ":", "+", "T", "+", LF>>
    /\ header = tin

\* C17: whenever the pattern matches, 0 < i5_start <= i5_end <= header.len(),
\* so that header[i5_start..i5_end] is a valid slice; no call panics.
C17_SliceInRange ==
    /\ pc # "panic"
    /\ (pc = "unit" /\ ~not_a_header(header) /\ i5_start_of(header) # None) =>
          LET i5_start == i5_start_of(header)
              i5_end   == i5_end_of(header, header[Len(header)] = LF)
          IN  0 < i5_start /\ i5_start <= i5_end /\ i5_end <= Len(header)

\* the '+' is the last byte of the buffer, and the call returned true
C17_Witness ==
    /\ pc = "unit" /\ Len(rets) = 1 /\ rets[1]
    /\ tin = <<"@", ":", "A", ":", "+">>
    /\ i5_start_of(tin) = Len(tin)
    /\ header = tin

\* C18: an iteration of the loop of read_line that does not return consumes
\* at least one byte; the cursor never moves back during a run, and a line
\* buffer holds exactly the bytes the cursor passed during the call, so that
\* no byte is read twice; every call of read_line returns; every run that
\* was started comes to its end, Ok or Err.
C18_Termination ==
    /\ [][(pc = "read" /\ pc' = "read") => cursor' > cursor]_vars
    /\ [][pass' = pass => cursor' >= cursor]_vars
    /\ [](pc \in {"read", "ret"} => lines[cur] = SubSeq(input, mark + 1, cursor))
    /\ (pc = "read") ~> (pc = "ret")
    /\ (pc = "loop") ~> (pc \in {"done", "fatal"})

\* the second run ended Ok after a line that took more than one iteration
C18_Witness ==
    /\ pc = "done" /\ pass = 2
    /\ cursor = Len(input) /\ Len(input) >= 4 * 4
    /\ Len(lines.q) > MaxChunk

=============================================================================
